---- MODULE Spec2Model ----
(***************************************************************************)
(* Model of editor/attribute_get.go of hcledit: the address resolver       *)
(* (findAttribute, findLongestMatchingBlocks, allMatchingBlocksByType,     *)
(* longestMatchingLabels), the raw value extractor                         *)
(* (getAttributeValueAsString) and the attributeGet filter and sink.       *)
(*                                                                         *)
(* A Go string is a sequence of one-character strings, so that             *)
(* strings.Split, strings.Join and strings.TrimSpace do real work.         *)
(* A *hclwrite.Block is identified by its path: the sequence of child      *)
(* indices leading to it from the file's body.  A pointer that may be nil  *)
(* is a set with at most one element.                                      *)
(***************************************************************************)
EXTENDS Integers, Sequences, FiniteSets, TLC

VARIABLES doc, address, pc, found, outFile, out, tokens, value

vars == <<doc, address, pc, found, outFile, out, tokens, value>>

\* ------------------------------------------------------------- bounds

\* segments of an address, blocks of a body, blocks nested in one another,
\* tokens of a token stream
MaxSegs == 4
MaxBlocks == 3
MaxDepth == 2
MaxTokens == 4

\* ------------------------------------------------------------ strings

Dot == "."

RECURSIVE Split(_)
\* strings.Split(s, "."): the substrings between the dots; <<s>> when s has none
Split(s) ==
    IF \A i \in 1..Len(s) : s[i] # Dot
    THEN <<s>>
    ELSE LET i == CHOOSE k \in 1..Len(s) :
                      s[k] = Dot /\ \A j \in 1..(k - 1) : s[j] # Dot
         IN <<SubSeq(s, 1, i - 1)>> \o Split(SubSeq(s, i + 1, Len(s)))

RECURSIVE Join(_)
\* strings.Join(list, ".")
Join(list) ==
    IF Len(list) = 0 THEN <<>>
    ELSE IF Len(list) = 1 THEN list[1]
    ELSE list[1] \o <<Dot>> \o Join(Tail(list))

IsSpace(c) == c \in {" ", "\n", "\t"}

RECURSIVE TrimLeft(_)
TrimLeft(s) ==
    IF Len(s) > 0 /\ IsSpace(s[1]) THEN TrimLeft(Tail(s)) ELSE s

RECURSIVE TrimRight(_)
TrimRight(s) ==
    IF Len(s) > 0 /\ IsSpace(s[Len(s)])
    THEN TrimRight(SubSeq(s, 1, Len(s) - 1))
    ELSE s

\* strings.TrimSpace
TrimSpace(s) == TrimRight(TrimLeft(s))

\* -------------------------------------------------------- hclwrite model

RECURSIVE Spaces(_)
Spaces(n) == IF n = 0 THEN <<>> ELSE <<" ">> \o Spaces(n - 1)

RECURSIVE TokensBytes(_)
\* hclwrite.Tokens.Bytes: each token's SpacesBefore spaces, then its bytes
TokensBytes(ts) ==
    IF Len(ts) = 0 THEN <<>>
    ELSE Spaces(ts[1].SpacesBefore) \o ts[1].Bytes \o TokensBytes(Tail(ts))

Tok(type, bytes, spaces) ==
    [Type |-> type, Bytes |-> bytes, SpacesBefore |-> spaces]

TokEqual == Tok("TokenEqual", <<"=">>, 1)
TokNewline == Tok("TokenNewline", <<"\n">>, 0)

\* hclwrite.Attribute.BuildTokens(nil): lead comments, name, "=", expression,
\* line comment, end of line
AttrBuildTokens(attr) ==
    attr.lead \o <<Tok("TokenIdent", attr.name, 0), TokEqual>> \o attr.expr
        \o attr.line \o <<TokNewline>>

\* hclwrite.Body.GetAttribute(name): the attribute of that name, or nil
BodyGetAttribute(body, name) ==
    {body.attrs[i] : i \in {k \in 1..Len(body.attrs) : body.attrs[k].name = name}}

RECURSIVE BodyAt(_, _)
\* the body of the block at a path (the file's body at the empty path)
BodyAt(body, path) ==
    IF Len(path) = 0 THEN body
    ELSE BodyAt(body.blocks[path[1]].body, Tail(path))

\* the block at a non-empty path
BlockAt(body, path) ==
    BodyAt(body, SubSeq(path, 1, Len(path) - 1)).blocks[path[Len(path)]]

\* ------------------------------------------------------------ resolver

RECURSIVE longestMatchingLabelsFrom(_, _, _)
longestMatchingLabelsFrom(labels, prefix, i) ==
    IF i > Len(prefix) THEN <<>>
    ELSE IF Len(labels) <= i - 1 THEN <<>>
    ELSE IF prefix[i] # labels[i] THEN <<>>
    ELSE <<labels[i]>> \o longestMatchingLabelsFrom(labels, prefix, i + 1)

\* a variant that counts positions without comparing them
longestMatchingLabelsByCount(labels, prefix) ==
    SubSeq(labels, 1, IF Len(labels) < Len(prefix) THEN Len(labels) ELSE Len(prefix))

longestMatchingLabels(labels, prefix) ==
    longestMatchingLabelsFrom(labels, prefix, 1)

\* a variant that stops at the first block of the type
allMatchingBlocksFirstOnly(body, typeName) ==
    LET all == SelectSeq([i \in 1..Len(body.blocks) |-> i],
                         LAMBDA i : typeName = body.blocks[i].type)
    IN IF Len(all) = 0 THEN <<>> ELSE <<all[1]>>

\* the indices, in document order, of the body's blocks of the given type
allMatchingBlocksByType(body, typeName) ==
    SelectSeq([i \in 1..Len(body.blocks) |-> i],
              LAMBDA i : typeName = body.blocks[i].type)

\* variants that leave the type segment in place, or drop one segment more
nestedAddrKeepsType(a, matchedlabels) ==
    Join(SubSeq(a, Len(matchedlabels) + 1, Len(a)))

nestedAddrDropsOneMore(a, matchedlabels) ==
    Join(SubSeq(a, 1 + Len(matchedlabels) + 2, Len(a)))

\* the address handed to the nested search
nestedAddrOf(a, matchedlabels) ==
    Join(SubSeq(a, 1 + Len(matchedlabels) + 1, Len(a)))

\* a variant without label precedence
skipsNoLabels(matchedlabels, labels) == FALSE

\* whether a candidate with extra labels is skipped
skipsPartialLabels(matchedlabels, labels) == Len(matchedlabels) < Len(labels)

\* whether the nested blocks of a candidate are searched
searchesNested(matchedlabels, labels, a) ==
    Len(matchedlabels) < (Len(a) - 1) \/ Len(labels) = 0

\* variants that skip the failing branch, or keep the matches gathered
onNestedErrorSkip(acc, nested) ==
    [blocks |-> acc.blocks, err |-> FALSE,
     calls |-> acc.calls \o nested.calls,
     examined |-> acc.examined \o nested.examined]

onNestedErrorKeep(acc, nested) ==
    [blocks |-> acc.blocks, err |-> TRUE,
     calls |-> acc.calls \o nested.calls,
     examined |-> acc.examined \o nested.examined]

\* what a failing nested search makes of the matches gathered so far
onNestedError(acc, nested) ==
    [blocks |-> <<>>, err |-> TRUE,
     calls |-> acc.calls \o nested.calls,
     examined |-> acc.examined \o nested.examined]

RECURSIVE findLongestMatchingBlocksAt(_, _, _, _, _)
RECURSIVE matchCandidates(_, _, _, _, _, _)

\* the loop over the same-typed candidates, from candidate number k on;
\* acc holds the matched list and the log of what was called and examined
matchCandidates(body, path, a, cands, k, acc) ==
    IF k > Len(cands) THEN acc
    ELSE
      LET p == Append(path, cands[k])
          b == body.blocks[cands[k]]
          labels == b.labels
          matchedlabels == longestMatchingLabels(labels, Tail(a))
          acc1 == [acc EXCEPT !.examined = Append(@, p)]
      IN IF skipsPartialLabels(matchedlabels, labels)
         THEN matchCandidates(body, path, a, cands, k + 1, acc1)
         ELSE IF searchesNested(matchedlabels, labels, a)
         THEN LET nested == findLongestMatchingBlocksAt(
                                b.body, p, nestedAddrOf(a, matchedlabels),
                                acc.depth + 1,
                                [body |-> path, segs |-> Len(a),
                                 consumed |-> 1 + Len(matchedlabels)])
              IN IF nested.err
                 THEN onNestedError(acc1, nested)
                 ELSE matchCandidates(body, path, a, cands, k + 1,
                          [acc1 EXCEPT !.blocks = @ \o nested.blocks,
                                       !.calls = @ \o nested.calls,
                                       !.examined = @ \o nested.examined])
         ELSE matchCandidates(body, path, a, cands, k + 1,
                  [acc1 EXCEPT !.blocks = Append(@, p)])

\* findLongestMatchingBlocks on the body at `path`; depth and caller are
\* bookkeeping: the nesting of this call and, of the call that made it, the
\* body, the segment count and the segments it consumed (type and labels)
findLongestMatchingBlocksAt(body, path, addr, depth, caller) ==
    LET call == [body |-> path, address |-> addr, depth |-> depth,
                 caller |-> caller]
    IN IF Len(addr) = 0
       THEN [blocks |-> <<>>, err |-> TRUE, calls |-> <<call>>,
             examined |-> <<>>]
       ELSE
         LET a == Split(addr)
             typeName == a[1]
             blocks == allMatchingBlocksByType(body, typeName)
         IN IF Len(a) = 1
            THEN [blocks |-> [i \in 1..Len(blocks) |-> Append(path, blocks[i])],
                  err |-> FALSE, calls |-> <<call>>, examined |-> <<>>]
            ELSE LET r == matchCandidates(body, path, a, blocks, 1,
                              [blocks |-> <<>>, err |-> FALSE,
                               calls |-> <<call>>, examined |-> <<>>,
                               depth |-> depth])
                 IN [blocks |-> r.blocks, err |-> r.err, calls |-> r.calls,
                     examined |-> r.examined]

NoCaller == [body |-> <<>>, segs |-> 0, consumed |-> 0]

findLongestMatchingBlocks(body, addr) ==
    findLongestMatchingBlocksAt(body, <<>>, addr, 1, NoCaller)

NoSearch == [blocks |-> <<>>, err |-> FALSE, calls |-> <<>>, examined |-> <<>>]

\* a variant that answers with the first matched block, attribute or not
firstBlockAttribute(body, blocks, attrName, k) ==
    IF k > Len(blocks) THEN [attr |-> {}, body |-> {}]
    ELSE [attr |-> BodyGetAttribute(BodyAt(body, blocks[k]), attrName),
          body |-> {blocks[k]}]

RECURSIVE firstWithAttribute(_, _, _, _)
\* the loop of findAttribute over the matched blocks, from number k on
firstWithAttribute(body, blocks, attrName, k) ==
    IF k > Len(blocks) THEN [attr |-> {}, body |-> {}]
    ELSE LET attr == BodyGetAttribute(BodyAt(body, blocks[k]), attrName)
         IN IF attr # {}
            THEN [attr |-> attr, body |-> {blocks[k]}]
            ELSE firstWithAttribute(body, blocks, attrName, k + 1)

\* findAttribute: attr and body are the returned pointers (empty: nil),
\* search is what the call of findLongestMatchingBlocks returned, called says
\* whether it was made
findAttribute(body, addr) ==
    IF Len(addr) = 0
    THEN [attr |-> {}, body |-> {}, err |-> TRUE, called |-> FALSE,
          search |-> NoSearch]
    ELSE
      LET a == Split(addr)
      IN IF Len(a) = 1
         THEN [attr |-> BodyGetAttribute(body, a[1]), body |-> {<<>>},
               err |-> FALSE, called |-> FALSE, search |-> NoSearch]
         ELSE
           LET attrName == a[Len(a)]
               blockAddr == Join(SubSeq(a, 1, Len(a) - 1))
               s == findLongestMatchingBlocks(body, blockAddr)
           IN IF s.err
              THEN [attr |-> {}, body |-> {}, err |-> TRUE, called |-> TRUE,
                    search |-> s]
              ELSE IF Len(s.blocks) = 0
              THEN [attr |-> {}, body |-> {}, err |-> FALSE, called |-> TRUE,
                    search |-> s]
              ELSE LET f == firstWithAttribute(body, s.blocks, attrName, 1)
                   IN [attr |-> f.attr, body |-> f.body, err |-> FALSE,
                       called |-> TRUE, search |-> s]

\* ------------------------------------------------------ value extractor

RECURSIVE firstTokenEqual(_, _)
\* the first loop of getAttributeValueAsString: the 0-based index of the first
\* TokenEqual at or after i, or len(exprTokens)
firstTokenEqual(exprTokens, i) ==
    IF i < Len(exprTokens) /\ exprTokens[i + 1].Type # "TokenEqual"
    THEN firstTokenEqual(exprTokens, i + 1)
    ELSE i

RECURSIVE untilTokenComment(_)
\* the second loop: the tokens up to, and without, the first TokenComment
untilTokenComment(ts) ==
    IF Len(ts) = 0 THEN <<>>
    ELSE IF ts[1].Type = "TokenComment" THEN <<>>
    ELSE <<ts[1]>> \o untilTokenComment(Tail(ts))

\* a variant that starts at the delimiter itself
tokensFrom(exprTokens, i) == SubSeq(exprTokens, i + 1, Len(exprTokens))

\* the tokens the value is collected from
tokensAfter(exprTokens, i) == SubSeq(exprTokens, (i + 1) + 1, Len(exprTokens))

\* getAttributeValueAsString on an attribute whose expression tokens are
\* exprTokens
getAttributeValueAsString(exprTokens) ==
    LET i == firstTokenEqual(exprTokens, 0)
    IN IF i = Len(exprTokens)
       THEN [value |-> <<>>, err |-> TRUE]
       ELSE LET valueTokens == untilTokenComment(tokensAfter(exprTokens, i))
            IN [value |-> TrimSpace(TokensBytes(valueTokens)), err |-> FALSE]

\* ------------------------------------------------------ filter and sink

EmptyFile == [attrs |-> <<>>, blocks |-> <<>>]

\* hclwrite.Body.SetAttributeRaw(name, tokens) on a body without attributes
SetAttributeRaw(body, name, ts) ==
    [body EXCEPT !.attrs =
        Append(@, [name |-> name, lead |-> <<>>, expr |-> ts, line |-> <<>>])]

\* attributeGet.Filter: file is the returned *hclwrite.File (empty: nil)
attributeGetFilter(inFile, addr) ==
    LET r == findAttribute(inFile, addr)
    IN IF r.err
       THEN [file |-> {}, err |-> TRUE, found |-> r]
       ELSE IF r.attr # {}
       THEN LET attr == CHOOSE x \in r.attr : TRUE
            IN [file |-> {SetAttributeRaw(EmptyFile, addr, AttrBuildTokens(attr))},
                err |-> FALSE, found |-> r]
       ELSE [file |-> {EmptyFile}, err |-> FALSE, found |-> r]

\* a variant without the newline
sinkBytesBare(v) == v

\* what Sink returns for an attribute whose value was extracted
sinkBytes(v) == v \o <<"\n">>

\* attributeGet.Sink
attributeGetSink(inFile, addr) ==
    LET attr == BodyGetAttribute(inFile, addr)
    IN IF attr = {}
       THEN [bytes |-> <<>>, err |-> FALSE]
       ELSE LET v == getAttributeValueAsString((CHOOSE x \in attr : TRUE).expr)
            IN IF v.err
               THEN [bytes |-> <<>>, err |-> TRUE]
               ELSE [bytes |-> sinkBytes(v.value), err |-> FALSE]

\* ------------------------------------------------------------- inputs

SeqsUpTo(S, n) == UNION {[1..k -> S] : k \in 0..n}

A == <<"a">>
B == <<"b">>

Types == {A, B}
LabelSeqs == {<<>>, <<A>>, <<A, B>>}
Segments == {<<>>, A, B}

TokQuoted == Tok("TokenQuotedLit", <<"\"", "1", "\"">>, 1)
TokComment == Tok("TokenComment", <<"#", "c", "\n">>, 1)
TokIdent == Tok("TokenIdent", <<"x">>, 1)

\* b = "1"
AttrPlain == [name |-> B, lead |-> <<>>, expr |-> <<TokQuoted>>, line |-> <<>>]

\* the forms of an attribute b: with and without a lead comment, a line
\* comment, a two-token value
AttrForms ==
    [name : {B}, lead : {<<>>, <<TokComment>>},
     expr : {<<TokQuoted>>, <<TokIdent, TokQuoted>>},
     line : {<<>>, <<TokComment>>}]

LeafWith == [attrs |-> <<AttrPlain>>, blocks |-> <<>>]
LeafWithout == [attrs |-> <<>>, blocks |-> <<>>]

\* sibling blocks: a { b = "1" }, a "" { b = "1" }, a {} and b { b = "1" }
WideBlocks ==
    {[type |-> A, labels |-> <<>>, body |-> LeafWith],
     [type |-> A, labels |-> << <<>> >>, body |-> LeafWith],
     [type |-> A, labels |-> <<>>, body |-> LeafWithout],
     [type |-> B, labels |-> <<>>, body |-> LeafWith]}

RECURSIVE ChainBlocks(_)
\* a block of any type and labels holding at most one block, d levels deep
ChainBlocks(d) ==
    [type : Types, labels : LabelSeqs,
     body : IF d = 1 THEN {LeafWith}
            ELSE {[attrs |-> <<AttrPlain>>, blocks |-> bs] :
                    bs \in SeqsUpTo(ChainBlocks(d - 1), 1)}]

\* the parsed files: up to MaxBlocks sibling blocks, a chain of blocks up to
\* MaxDepth deep, or a single attribute in any of its forms
Docs ==
    {[attrs |-> <<AttrPlain>>, blocks |-> bs] :
        bs \in SeqsUpTo(WideBlocks, MaxBlocks)
               \cup SeqsUpTo(ChainBlocks(MaxDepth), 1)}
    \cup {[attrs |-> <<f>>, blocks |-> <<>>] : f \in AttrForms}

Addresses == {Join(s) : s \in SeqsUpTo(Segments, MaxSegs)}

TokenKinds == {TokEqual, TokQuoted, TokComment, TokIdent, TokNewline}

\* ------------------------------------------------------- state machine

NoFound == [attr |-> {}, body |-> {}, err |-> FALSE, called |-> FALSE,
            search |-> NoSearch]
NoOut == [bytes |-> <<>>, err |-> FALSE]
NoValue == [value |-> <<>>, err |-> FALSE]

Init ==
    /\ doc \in Docs
    /\ address \in Addresses
    /\ pc = "start"
    /\ found = NoFound
    /\ outFile = {}
    /\ out = NoOut
    /\ tokens = <<>>
    /\ value = NoValue

\* Editor.Apply runs the filter on the parsed file
Filter ==
    /\ pc = "start"
    /\ LET r == attributeGetFilter(doc, address)
       IN /\ found' = r.found
          /\ outFile' = r.file
          /\ pc' = IF r.err THEN "failed" ELSE "filtered"
    /\ UNCHANGED <<doc, address, out, tokens, value>>

\* Editor.Apply hands the filtered file to the sink
Sink ==
    /\ pc = "filtered"
    /\ LET f == CHOOSE x \in outFile : TRUE
       IN out' = attributeGetSink(f, address)
    /\ pc' = "done"
    /\ UNCHANGED <<doc, address, found, outFile, tokens, value>>

Next == Filter \/ Sink

Spec == Init /\ [][Next]_vars

\* getAttributeValueAsString on its own, on any token stream
InitValue ==
    /\ doc = EmptyFile
    /\ address = <<>>
    /\ pc = "value"
    /\ found = NoFound
    /\ outFile = {}
    /\ out = NoOut
    /\ tokens \in SeqsUpTo(TokenKinds, MaxTokens)
    /\ value = NoValue

ExtractValue ==
    /\ pc = "value"
    /\ value' = getAttributeValueAsString(tokens)
    /\ pc' = "valued"
    /\ UNCHANGED <<doc, address, found, outFile, out, tokens>>

NextValue == ExtractValue

SpecValue == InitValue /\ [][NextValue]_vars

\* ------------------------------------------------------------ properties

Front(q) == SubSeq(q, 1, Len(q) - 1)
Last(q) == q[Len(q)]

IsPrefix(p, q) == Len(p) <= Len(q) /\ SubSeq(q, 1, Len(p)) = p

RECURSIVE AllPaths(_)
\* the paths of all the blocks below a body
AllPaths(body) ==
    UNION {{<<i>>} \cup {<<i>> \o q : q \in AllPaths(body.blocks[i].body)} :
            i \in 1..Len(body.blocks)}

RECURSIVE ChainSegs(_, _)
\* type(b1), labels(b1), ..., type(bk), labels(bk) of the blocks along a path
ChainSegs(body, path) ==
    IF Len(path) = 0 THEN <<>>
    ELSE LET b == body.blocks[path[1]]
         IN <<b.type>> \o b.labels \o ChainSegs(b.body, Tail(path))

\* depth-first document order of two blocks neither of which holds the other
Before(p, q) ==
    \E k \in 1..Len(p) :
        /\ k <= Len(q)
        /\ SubSeq(p, 1, k - 1) = SubSeq(q, 1, k - 1)
        /\ p[k] < q[k]

\* v is s without its leading and trailing white space
IsTrimOf(v, s) ==
    /\ \E i \in 0..Len(s) :
          /\ Len(v) + i <= Len(s)
          /\ v = SubSeq(s, i + 1, i + Len(v))
          /\ \A j \in (1..i) \cup ((i + Len(v) + 1)..Len(s)) : IsSpace(s[j])
    /\ Len(v) > 0 => ~IsSpace(v[1]) /\ ~IsSpace(v[Len(v)])

Filtered == pc \in {"filtered", "failed", "done"}

\* the search findAttribute made, its first call and that call's segments
Search == found.search
TopCall == Search.calls[1]
BlockSegs == Split(TopCall.address)
AddrSegs == Split(address)

HasAttr(path, name) == BodyGetAttribute(BodyAt(doc, path), name) # {}

\* the positions in the match set of the blocks that have the attribute
Having == {k \in 1..Len(Search.blocks) : HasAttr(Search.blocks[k], Last(AddrSegs))}

\* C1: for an address with a dot whose block address resolves without error,
\* findAttribute returns the attribute of the first block of the match set
\* that has one of that name, with that block's body; (nil, nil) and no error
\* when the match set is empty or no matched block has it.
C1_FirstMatchingAttribute ==
    (Filtered /\ found.called /\ ~Search.err) =>
        /\ ~found.err
        /\ IF Having = {}
           THEN found.attr = {} /\ found.body = {}
           ELSE LET k == CHOOSE i \in Having : \A j \in Having : i <= j
                IN /\ found.body = {Search.blocks[k]}
                   /\ found.attr =
                        BodyGetAttribute(BodyAt(doc, Search.blocks[k]), Last(AddrSegs))

\* a matched block without the attribute comes before the one returned
C1_Witness ==
    /\ Filtered /\ found.called /\ ~Search.err
    /\ found.attr # {}
    /\ Len(Search.blocks) >= 2
    /\ ~HasAttr(Search.blocks[1], Last(AddrSegs))
    /\ found.body = {Search.blocks[2]}

\* C2: for a block address of one segment, a bare type name,
\* findLongestMatchingBlocks returns exactly the direct child blocks of that
\* type, in document order, whatever their labels, and no nested block.
C2_BareTypeName ==
    (Filtered /\ found.called /\ Len(BlockSegs) = 1 /\ TopCall.address # <<>>) =>
        /\ ~Search.err
        /\ \A k \in 1..Len(Search.blocks) : Len(Search.blocks[k]) = 1
        /\ \A k \in 1..(Len(Search.blocks) - 1) :
              Search.blocks[k][1] < Search.blocks[k + 1][1]
        /\ {Search.blocks[k] : k \in 1..Len(Search.blocks)} =
              {<<i>> : i \in {j \in 1..Len(doc.blocks) :
                                doc.blocks[j].type = BlockSegs[1]}}

\* same-typed siblings with different labels are both returned, another type
\* is left out
C2_Witness ==
    /\ Filtered /\ found.called /\ Len(BlockSegs) = 1
    /\ Len(Search.blocks) = 2
    /\ Len(doc.blocks) = 3
    /\ doc.blocks[Search.blocks[1][1]].labels # doc.blocks[Search.blocks[2][1]].labels

LabelsEntirelyMatched(labels, rest) ==
    /\ Len(labels) <= Len(rest)
    /\ \A j \in 1..Len(labels) : labels[j] = rest[j]

\* the candidates of a call that label precedence excludes
Excluded(c) ==
    LET a == Split(c.address)
        body == BodyAt(doc, c.body)
    IN IF Len(c.address) = 0 \/ Len(a) < 2 THEN {}
       ELSE {Append(c.body, i) : i \in
               {j \in 1..Len(body.blocks) :
                   /\ body.blocks[j].type = a[1]
                   /\ ~LabelsEntirelyMatched(body.blocks[j].labels, Tail(a))}}

\* C3: label precedence: under a block address of two or more segments, a
\* same-typed candidate whose labels are not entirely matched, position by
\* position, by the segments after the type name is excluded: neither it nor
\* a block nested in it is in the match set, and its body is never searched.
C3_LabelPrecedence ==
    (Filtered /\ found.called) =>
        \A n \in 1..Len(Search.calls) :
            \A x \in Excluded(Search.calls[n]) :
                /\ \A k \in 1..Len(Search.blocks) : ~IsPrefix(x, Search.blocks[k])
                /\ \A m \in 1..Len(Search.calls) : ~IsPrefix(x, Search.calls[m].body)

\* an excluded candidate with two labels, the first of them matched, holds a
\* block of the type the next segment names
C3_Witness ==
    /\ Filtered /\ found.called
    /\ \E x \in Excluded(TopCall) :
          LET b == BlockAt(doc, x)
          IN /\ Len(b.labels) = 2
             /\ Len(BlockSegs) = 3
             /\ b.labels[1] = BlockSegs[2]
             /\ Len(b.body.blocks) = 1
             /\ b.body.blocks[1].type = BlockSegs[3]

\* C4 as claimed: every address other than the zero-length string makes
\* findAttribute return without error.
C4_OnlyEmptyAddressFails ==
    (Filtered /\ address # <<>>) => ~found.err

\* the block address ends in an empty segment that a chain of blocks, their
\* types and labels consumed, leaves as the whole nested address
ReachesEmptyRest(segs) ==
    /\ Len(segs) >= 3
    /\ \E p \in AllPaths(doc) :
          ChainSegs(doc, p) \o << <<>> >> = Front(segs)

\* C4 amended: findAttribute fails exactly on the zero-length address, on a
\* two-segment address whose first segment is empty, and on a longer address
\* whose second-to-last segment is empty when a chain of blocks consumes the
\* segments before it with its types and labels; on every other address,
\* empty segments included, it returns without error.
C4_EmptyAddressFailures ==
    Filtered =>
        LET segs == AddrSegs
        IN found.err <=>
              \/ address = <<>>
              \/ Len(segs) = 2 /\ segs[1] = <<>>
              \/ ReachesEmptyRest(segs)

\* an address with an empty segment in the middle that returns without error
\* although blocks of its first type exist
C4_Witness ==
    /\ Filtered /\ ~found.err
    /\ Len(AddrSegs) = 4
    /\ AddrSegs[2] = <<>>
    /\ AddrSegs[3] # <<>>
    /\ Len(Search.calls) >= 2

Equals == {i \in 1..Len(tokens) : tokens[i].Type = "TokenEqual"}
FirstEqual == CHOOSE i \in Equals : \A j \in Equals : i <= j
CommentsAfter ==
    {i \in (FirstEqual + 1)..Len(tokens) : tokens[i].Type = "TokenComment"}
ValueEnd ==
    IF CommentsAfter = {} THEN Len(tokens)
    ELSE (CHOOSE i \in CommentsAfter : \A j \in CommentsAfter : i <= j) - 1

\* C5: getAttributeValueAsString fails if and only if the token stream has no
\* TokenEqual; otherwise the value is the text of the tokens after the first
\* TokenEqual and before the first TokenComment that follows it (or the end),
\* without leading and trailing white space.
C5_RawValue ==
    pc = "valued" =>
        /\ value.err <=> Equals = {}
        /\ ~value.err =>
              IsTrimOf(value.value,
                       TokensBytes(SubSeq(tokens, FirstEqual + 1, ValueEnd)))

\* a comment before the delimiter, a value, a comment after it
C5_Witness ==
    /\ pc = "valued" /\ ~value.err
    /\ tokens[1].Type = "TokenComment"
    /\ FirstEqual = 2
    /\ ValueEnd = 3
    /\ Len(tokens) = 4
    /\ value.value # <<>>

\* C6: in the pipeline, bytes are written only when the attribute was found
\* and its value extracted, and are then the raw value and one newline; on
\* not-found the filter yields an empty file and the sink no bytes and no
\* error; when the filter or the sink fails there are no bytes.
C6_PipelineOutput ==
    /\ pc = "failed" => found.err /\ outFile = {} /\ out.bytes = <<>>
    /\ pc \in {"filtered", "done"} =>
          /\ ~found.err
          /\ found.attr = {} => outFile = {EmptyFile}
    /\ pc = "done" =>
          /\ found.attr = {} => out.bytes = <<>> /\ ~out.err
          /\ out.err => out.bytes = <<>>
          /\ (found.attr # {} /\ ~out.err) =>
                \E v \in {SubSeq(out.bytes, 1, Len(out.bytes) - 1)} :
                    /\ out.bytes = v \o <<"\n">>
                    /\ IsTrimOf(v, TokensBytes((CHOOSE x \in found.attr : TRUE).expr))

\* an attribute between a lead comment and a line comment is written
C6_Witness ==
    /\ pc = "done" /\ found.attr # {}
    /\ \E x \in found.attr : x.lead # <<>> /\ x.line # <<>> /\ Len(x.expr) = 2
    /\ Len(out.bytes) > 1

\* C7: every recursive call of findLongestMatchingBlocks is made on the body
\* of a child block of the caller's body with strictly fewer segments than
\* the caller's, and no call is nested deeper than the block address has
\* segments.
C7_RecursionBounded ==
    (Filtered /\ found.called) =>
        \A n \in 1..Len(Search.calls) :
            LET c == Search.calls[n]
            IN /\ c.depth <= Len(BlockSegs)
               /\ c.depth > 1 =>
                    /\ Len(Split(c.address)) < c.caller.segs
                    /\ Len(c.body) = Len(c.caller.body) + 1
                    /\ IsPrefix(c.caller.body, c.body)

\* a block address of three segments searched three calls deep, each call
\* handed one segment less
C7_Witness ==
    /\ Filtered /\ found.called
    /\ Len(BlockSegs) = 3
    /\ \E n \in 1..Len(Search.calls) :
          /\ Search.calls[n].depth = 3
          /\ Len(Search.calls[n].body) = 2
          /\ Search.calls[n].caller.segs = 2
          /\ Search.calls[n].address # <<>>

NestedFailures == {n \in 2..Len(Search.calls) : Search.calls[n].address = <<>>}

\* C8: an empty-address failure in a nested call ends the whole resolution:
\* the top call returns the error and no blocks, no candidate is examined and
\* no call made after the failing one, and findAttribute returns the error
\* with a nil attribute and a nil body.
C8_NestedFailureFatal ==
    (Filtered /\ found.called /\ NestedFailures # {}) =>
        /\ Search.err
        /\ Search.blocks = <<>>
        /\ NestedFailures = {Len(Search.calls)}
        /\ Last(Search.examined) = Last(Search.calls).body
        /\ found.err /\ found.attr = {} /\ found.body = {}

\* a full match was gathered from the first candidate, the second fails, the
\* third is never examined
C8_Witness ==
    /\ Filtered /\ found.called /\ NestedFailures # {}
    /\ Len(doc.blocks) = 3
    /\ \A i \in 1..3 : doc.blocks[i].type = BlockSegs[1]
    /\ doc.blocks[1].labels = Tail(BlockSegs)
    /\ Search.examined = << <<1>>, <<2>> >>

\* the blocks the address names: the types and labels along the chain down
\* to the block spell the address, the block's own labels left out (a bare
\* type) or, if it has any, included
Named(segs) ==
    {p \in AllPaths(doc) :
        LET b == BlockAt(doc, p)
        IN \/ segs = ChainSegs(doc, Front(p)) \o <<b.type>>
           \/ Len(b.labels) >= 1 /\ segs = ChainSegs(doc, p)}

C10_NoErrorWithoutEmptySegment ==
    Filtered =>
        /\ (\A i \in 1..Len(AddrSegs) : AddrSegs[i] # <<>>) =>
              ~found.err /\ ~Search.err
        /\ \A n \in 2..Len(Search.calls) :
              LET c == Search.calls[n]
              IN /\ c.caller.segs - c.caller.consumed >= 1
                 /\ c.address = <<>> => \E i \in 1..Len(AddrSegs) : AddrSegs[i] = <<>>

\* a block without labels searched with the rest of an address without empty
\* segments
C10_Witness ==
    /\ Filtered /\ found.called
    /\ \A i \in 1..Len(AddrSegs) : AddrSegs[i] # <<>>
    /\ \E n \in 2..Len(Search.calls) :
          /\ BlockAt(doc, Search.calls[n].body).labels = <<>>
          /\ Search.calls[n].caller.segs = 2
    /\ found.attr # {}

====
